---------------------------- MODULE Spec2Model ----------------------------
(***************************************************************************)
(* The real-time chat core of the repository: the WebSocket consumer       *)
(* (chat/consumers.py), the handshake middleware (chat/middleware.py), the *)
(* REST endpoints that publish into the same rooms (chat/views.py), the    *)
(* per-viewer message serializer (chat/serializers.py) and the tables of   *)
(* chat/models.py.                                                         *)
(*                                                                         *)
(* The channel layer is modelled as one mailbox per connection: group_send *)
(* appends an event to the mailbox of every connection in the group, and   *)
(* the consumer of that connection later runs the event's broadcaster      *)
(* handler (Deliver).  Frames written to a transport, and HTTP responses,   *)
(* of the last step are in `out`.                                          *)
(***************************************************************************)
EXTENDS Integers, Sequences, FiniteSets, TLC

(***************************************************************************)
(* Bounds of the model.                                                    *)
(***************************************************************************)
MaxConns == 2
MaxMsgs == 2
MaxOps == 3
MaxTime == 11

(***************************************************************************)
(* Program constants.                                                      *)
(***************************************************************************)
AuthFailedCode == 4001
AccessDeniedCode == 4003
PreviewLen == 100
TypingWindow == 10

(***************************************************************************)
(* Identities and fixed data.  Accounts A, B and C exist; "ghost" is an    *)
(* account id no Account row has.  Conversations 1 and 2 exist, 3 does not.*)
(***************************************************************************)
Users == {"A", "B", "C"}
NoUser == "anon"
Convs == {1, 2}
ConvIds == {1, 2, 3}
Participants == [c \in Convs |-> IF c = 1 THEN {"A", "B"} ELSE {"B", "C"}]
Conns == 1..MaxConns
MsgIds == 1..MaxMsgs
MsgIdInputs == 0..(MaxMsgs + 1)
ReactionChoices == {"like", "love"}
ReactionInputs == {"", "like", "love", "bogus"}
StatusChoices == {"online", "away", "busy", "offline"}

(***************************************************************************)
(* Text is a sequence of one-character strings.  Null stands for Python's  *)
(* None in a content field, DeletedPlaceholder for the literal             *)
(* '[Message deleted]'.                                                    *)
(***************************************************************************)
Null == <<"None">>
DeletedPlaceholder == <<"[Message deleted]">>
ContentInputs == {<<>>, <<" ">>, <<"a">>, <<" ", "b">>, <<"c">>}

RECURSIVE LStrip(_)
LStrip(s) == IF s # <<>> /\ Head(s) = " " THEN LStrip(Tail(s)) ELSE s

RECURSIVE RStrip(_)
RStrip(s) ==
    IF s # <<>> /\ s[Len(s)] = " " THEN RStrip(SubSeq(s, 1, Len(s) - 1)) ELSE s

Strip(s) == RStrip(LStrip(s))

Preview(s) == SubSeq(s, 1, IF Len(s) < PreviewLen THEN Len(s) ELSE PreviewLen)

(***************************************************************************)
(* Conversation.encrypt_message / decrypt_message: a ciphertext is a       *)
(* tagged copy of the plaintext; empty text is stored as it is, and text   *)
(* that is no ciphertext decrypts to itself.                               *)
(***************************************************************************)
Encrypt(s) == IF s = <<>> THEN s ELSE <<"enc">> \o s

Decrypt(s) == IF s # <<>> /\ Head(s) = "enc" THEN Tail(s) ELSE s

(***************************************************************************)
(* Credentials presented at the handshake: a token in the query string     *)
(* and/or a bearer token in the Authorization header.                      *)
(***************************************************************************)
NoToken == [kind |-> "absent", uid |-> NoUser]
Tokens ==
    {NoToken, [kind |-> "invalid", uid |-> NoUser], [kind |-> "expired", uid |-> "A"]}
    \cup {[kind |-> "valid", uid |-> u] : u \in Users \cup {"ghost"}}
Creds ==
    {c \in [query : Tokens, header : Tokens] :
        c.query = NoToken \/ c.header \in {NoToken, [kind |-> "valid", uid |-> "B"]}}

VARIABLES
    conn,        \* connection -> [state, user, conv, code, accepted]
    group,       \* channel-layer groups: conversation id -> set of connections
    inbox,       \* channel-layer mailbox of each connection's consumer
    messages,    \* Message rows; the message id is the index
    msgDeleted,  \* MessageDeletion rows: <<message, user>> -> number of rows
    convDeleted, \* ConversationDeletion rows: <<conversation, user>> -> rows
    reactions,   \* MessageReaction rows: <<message, user, kind>> -> rows
    readStatus,  \* MessageReadStatus: <<message, user>> -> read_at, -1 if none
    presence,    \* UserStatus: user -> [exists, status, typing_in, typing_started_at]
    now,         \* the clock, in seconds
    ops,         \* inbound frames and REST calls handled so far
    out,         \* frames and HTTP responses written by the last operation
    pending      \* reaction toggles between their get_or_create and their delete

vars ==
    <<conn, group, inbox, messages, msgDeleted, convDeleted, reactions,
      readStatus, presence, now, ops, out, pending>>

store == <<messages, msgDeleted, convDeleted, reactions, readStatus>>


(***************************************************************************)
(* Records.                                                                *)
(***************************************************************************)
FreshConn ==
    [state |-> "Connecting", user |-> NoUser, conv |-> 0, code |-> 0,
     accepted |-> FALSE]

NoPresence ==
    [exists |-> FALSE, status |-> "offline", typing_in |-> 0, typing_started_at |-> -1]

Has(table, key) == table[key] > 0

Exists(m) == m \in 1..Len(messages)

IsSubscribed(k) == conn[k].state = "Subscribed"

(***************************************************************************)
(* A consumer handles one message at a time: while a handler of connection *)
(* k is between two store statements, nothing else of k runs.              *)
(***************************************************************************)
Busy(k) == \E p \in pending : p.origin = k

(***************************************************************************)
(* UserDisplaySerializer: the user data put in events.  Only the account   *)
(* id is kept.                                                             *)
(***************************************************************************)
UserData(u) == [acc_id |-> u]

(***************************************************************************)
(* MessageSerializer for the viewer `viewer` (the request user of the      *)
(* serializer's context): get_content, get_reply_to, get_is_deleted_by_me. *)
(***************************************************************************)
GetContent(msgs, del, m, viewer) ==
    IF Has(del, <<m, viewer>>) THEN Null ELSE Decrypt(msgs[m].content)

GetReplyTo(msgs, del, m, viewer) ==
    LET r == msgs[m].reply_to IN
    IF r = 0 THEN [message_id |-> 0, content |-> Null, sender |-> NoUser]
    ELSE IF Has(del, <<r, viewer>>)
         THEN [message_id |-> r, content |-> DeletedPlaceholder,
               sender |-> msgs[r].sender]
         ELSE [message_id |-> r, content |-> Preview(Decrypt(msgs[r].content)),
               sender |-> msgs[r].sender]

SerializeMessage(msgs, del, m, viewer) ==
    [message_id |-> m,
     content |-> GetContent(msgs, del, m, viewer),
     sender |-> msgs[m].sender,
     is_edited |-> msgs[m].is_edited,
     reply_to |-> GetReplyTo(msgs, del, m, viewer),
     is_deleted_by_me |-> Has(del, <<m, viewer>>)]

LastOf(q) == q[Len(q)]

(***************************************************************************)
(* channel_layer.group_send: the event is appended to the mailbox of every *)
(* connection that is in the group now.                                    *)
(***************************************************************************)
\* A faulty channel that hands the newest event over first.
SendToFront(box, members, ev) ==
    [k \in Conns |-> IF k \in members THEN <<ev>> \o box[k] ELSE box[k]]

SendTo(box, members, ev) ==
    [k \in Conns |-> IF k \in members THEN Append(box[k], ev) ELSE box[k]]

\* A faulty group_send that skips the publishing connection.
GroupSendToOthers(box, c, ev) == SendTo(box, group[c] \ {ev.origin}, ev)

GroupSend(box, c, ev) == SendTo(box, group[c], ev)

StatusEvent(k, u, status) ==
    [type |-> "status_broadcast", origin |-> k, user_data |-> UserData(u),
     status |-> status]

(***************************************************************************)
(* Initial state: an empty store, no connection opened yet.                *)
(***************************************************************************)
Init ==
    /\ conn = [k \in Conns |-> FreshConn]
    /\ group = [c \in ConvIds |-> {}]
    /\ inbox = [k \in Conns |-> <<>>]
    /\ messages = <<>>
    /\ msgDeleted = [p \in MsgIds \X Users |-> 0]
    /\ convDeleted = [p \in Convs \X Users |-> 0]
    /\ reactions = [p \in MsgIds \X Users \X (ReactionInputs \ {""}) |-> 0]
    /\ readStatus = [p \in MsgIds \X Users |-> -1]
    /\ presence = [u \in Users |-> NoPresence]
    /\ now = 0
    /\ ops = 0
    /\ out = <<>>
    /\ pending = {}

(***************************************************************************)
(* ChatConsumer.set_user_status / clear_typing_status / set_typing_status. *)
(***************************************************************************)
SetUserStatus(p, u, status) ==
    [p EXCEPT ![u] = [@ EXCEPT !.exists = TRUE, !.status = status]]

ClearTypingStatus(p, u) ==
    [p EXCEPT ![u] = IF @.exists
                     THEN [@ EXCEPT !.typing_in = 0, !.typing_started_at = -1]
                     ELSE @]

SetTypingStatus(p, u, c, is_typing) ==
    [p EXCEPT ![u] = IF is_typing
                     THEN [@ EXCEPT !.exists = TRUE, !.typing_in = c,
                                    !.typing_started_at = now]
                     ELSE [@ EXCEPT !.exists = TRUE, !.typing_in = 0,
                                    !.typing_started_at = -1]]

(***************************************************************************)
(* The handshake's authentication: JWTAuthMiddleware.__call__ puts a user  *)
(* in the scope, ChatConsumer.authenticate_user resolves the query token   *)
(* itself and falls back to the scope's user.  TokenUser is what a token   *)
(* resolves to: UntypedToken and jwt.decode accept only a valid token, and *)
(* the account lookup must find a row.                                     *)
(***************************************************************************)
\* A faulty token check that does not look at the expiry.
TokenUserAcceptingExpired(t) ==
    IF t.kind \in {"valid", "expired"} /\ t.uid \in Users THEN t.uid ELSE NoUser

TokenUser(t) == IF t.kind = "valid" /\ t.uid \in Users THEN t.uid ELSE NoUser

MiddlewareUser(cred) ==
    LET token == IF cred.query # NoToken THEN cred.query ELSE cred.header
    IN  TokenUser(token)

AuthenticateUser(cred) ==
    IF cred.query # NoToken THEN TokenUser(cred.query) ELSE MiddlewareUser(cred)

(***************************************************************************)
(* ChatConsumer.verify_conversation_access.                                *)
(***************************************************************************)
\* A faulty access check that does not look at ConversationDeletion.
VerifyConversationAccessIgnoringDeletion(u, c) ==
    /\ c \in Convs
    /\ u \in Participants[c]

VerifyConversationAccess(u, c) ==
    /\ c \in Convs
    /\ u \in Participants[c]
    /\ ~Has(convDeleted, <<c, u>>)

(***************************************************************************)
(* ChatConsumer.disconnect for a connection of user u on conversation c:   *)
(* group_discard, then for an authenticated user clear_typing_status,      *)
(* set_user_status('offline') and broadcast_status_change('offline').      *)
(***************************************************************************)
\* A faulty disconnect that leaves the connection in its group.
GroupDiscardForgotten(g, c, k) == g

GroupDiscard(g, c, k) == [g EXCEPT ![c] = @ \ {k}]

\* A faulty cleanup that spares a user who has another live connection.
DisconnectPresenceUnlessOnlineElsewhere(p, u) ==
    IF u # NoUser /\ Cardinality({j \in Conns : IsSubscribed(j) /\ conn[j].user = u}) <= 1
    THEN SetUserStatus(ClearTypingStatus(p, u), u, "offline")
    ELSE p

DisconnectPresence(p, u) ==
    IF u # NoUser THEN SetUserStatus(ClearTypingStatus(p, u), u, "offline") ELSE p

DisconnectInbox(box, members, k, u) ==
    LET dropped == [box EXCEPT ![k] = <<>>] IN
    IF u # NoUser THEN SendTo(dropped, members \ {k}, StatusEvent(k, u, "offline"))
    ELSE dropped

\* A faulty admission that never joins the room.
GroupAddForgotten(g, c, k) == g

\* channel_layer.group_add(self.room_group_name, self.channel_name)
GroupAdd(g, c, k) == [g EXCEPT ![c] = @ \cup {k}]

\* A faulty close that leaves the connection ready for another handshake.
ClosedConnReusable(u, c, code, accepted) ==
    [state |-> "Connecting", user |-> u, conv |-> c, code |-> code, accepted |-> accepted]

ClosedConn(u, c, code, accepted) ==
    [state |-> "Closed", user |-> u, conv |-> c, code |-> code, accepted |-> accepted]

(***************************************************************************)
(* ChatConsumer.connect.  A handshake that the server closes (4001, 4003)  *)
(* is followed by the disconnect handler of the same consumer.             *)
(***************************************************************************)
Connect(k, cred, c) ==
    /\ conn[k].state = "Connecting"
    /\ \A j \in Conns : j < k => conn[j].state # "Connecting"
    /\ LET u == AuthenticateUser(cred) IN
       IF u = NoUser
       THEN /\ conn' = [conn EXCEPT ![k] = ClosedConn(NoUser, c, AuthFailedCode, FALSE)]
            /\ UNCHANGED <<group, presence, inbox>>
       ELSE IF ~VerifyConversationAccess(u, c)
       THEN /\ conn' = [conn EXCEPT ![k] = ClosedConn(u, c, AccessDeniedCode, FALSE)]
            /\ group' = GroupDiscard(group, c, k)
            /\ presence' = DisconnectPresence(presence, u)
            /\ inbox' = DisconnectInbox(inbox, group[c], k, u)
       ELSE /\ conn' = [conn EXCEPT ![k] =
                          [@ EXCEPT !.state = "Subscribed", !.user = u, !.conv = c,
                                    !.accepted = TRUE]]
            /\ group' = GroupAdd(group, c, k)
            /\ presence' = SetUserStatus(presence, u, "online")
            /\ inbox' = SendTo(inbox, group[c] \cup {k}, StatusEvent(k, u, "online"))
    /\ out' = <<>>
    /\ UNCHANGED <<store, now, ops, pending>>

(***************************************************************************)
(* The transport of a subscribed connection closes: ChatConsumer.disconnect.*)
(* The mailbox of the consumer goes away with it.                          *)
(***************************************************************************)
Disconnect(k) ==
    /\ conn[k].state = "Subscribed"
    /\ ~Busy(k)
    /\ group' = GroupDiscard(group, conn[k].conv, k)
    /\ presence' = DisconnectPresence(presence, conn[k].user)
    /\ inbox' = DisconnectInbox(inbox, group[conn[k].conv], k, conn[k].user)
    /\ conn' = [conn EXCEPT ![k] = ClosedConn(conn[k].user, conn[k].conv, 0, TRUE)]
    /\ out' = <<>>
    /\ UNCHANGED <<store, now, ops, pending>>

(***************************************************************************)
(* The broadcaster handlers of ChatConsumer: what the consumer of a        *)
(* connection whose user is u writes to its transport for the event ev.    *)
(***************************************************************************)
Wire(type, ev) == [ev EXCEPT !.type = type]

\* A faulty lookup that never finds the marker.
UserHasDeletedMessageUnchecked(m, u) == FALSE

UserHasDeletedMessage(m, u) == Has(msgDeleted, <<m, u>>)

\* A faulty filter that lets the event back to its user.
NotFromSelfUnfiltered(ev, u) == u # NoUser

NotFromSelf(ev, u) == u # NoUser /\ ev.user_data.acc_id # u

Broadcaster(ev, u) ==
    CASE ev.type = "chat_message_broadcast" -> <<Wire("chat_message", ev)>>
      [] ev.type = "message_edited_broadcast" -> <<Wire("message_edited", ev)>>
      [] ev.type = "message_deleted_broadcast" ->
            IF ~UserHasDeletedMessage(ev.message_id, u)
            THEN <<Wire("message_deleted", ev)>> ELSE <<>>
      [] ev.type = "message_restored_broadcast" -> <<Wire("message_restored", ev)>>
      [] ev.type = "reaction_broadcast" -> <<Wire("reaction", ev)>>
      [] ev.type = "read_receipt_broadcast" ->
            IF NotFromSelf(ev, u) THEN <<Wire("read_receipt", ev)>> ELSE <<>>
      [] ev.type = "user_typing_broadcast" ->
            IF NotFromSelf(ev, u) THEN <<Wire("user_typing", ev)>> ELSE <<>>
      [] ev.type = "status_broadcast" ->
            IF NotFromSelf(ev, u) THEN <<Wire("user_status", ev)>> ELSE <<>>

To(k, frames) == [i \in 1..Len(frames) |-> [to |-> k, frame |-> frames[i]]]

\* The events of every mailbox as the channel layer carries them: `origin`
\* only records which connection published and is no field of the event.
Payloads(box) ==
    [j \in Conns |-> [i \in 1..Len(box[j]) |-> [box[j][i] EXCEPT !.origin = 0]]]

Deliver(k) ==
    /\ IsSubscribed(k)
    /\ ~Busy(k)
    /\ inbox[k] # <<>>
    /\ LET ev == Head(inbox[k]) IN
       /\ out' = To(k, Broadcaster(ev, conn[k].user))
    /\ inbox' = [inbox EXCEPT ![k] = Tail(@)]
    /\ UNCHANGED <<conn, group, store, presence, now, ops, pending>>

(***************************************************************************)
(* ChatConsumer.send_error.                                                *)
(***************************************************************************)
\* A faulty send_error that writes the error to every connection.
SendErrorToEveryConnection(k, message) ==
    [j \in Conns |-> [to |-> j, frame |-> [type |-> "error", message |-> message]]]

SendError(k, message) == <<[to |-> k, frame |-> [type |-> "error", message |-> message]]>>

CanReceive(k) == IsSubscribed(k) /\ ~Busy(k) /\ ops < MaxOps

(***************************************************************************)
(* receive -> handle_chat_message -> save_message, serialize_message,      *)
(* group_send, clear_typing_status.  Faults: "persist" (the create         *)
(* raises), "touch" (the row is created and the conversation's save        *)
(* raises), "clear" (clear_typing_status raises after the group_send).     *)
(***************************************************************************)
NewMessage(c, u, text, reply_to) ==
    [conv |-> c, sender |-> u, content |-> Encrypt(text), is_edited |-> FALSE,
     edited_at |-> -1, reply_to |-> IF Exists(reply_to) THEN reply_to ELSE 0]

ChatMessageEvent(k, msgs, del, m, viewer) ==
    [type |-> "chat_message_broadcast", origin |-> k,
     message |-> SerializeMessage(msgs, del, m, viewer)]

ReceiveChatMessage(k, raw, reply_to, fault) ==
    /\ CanReceive(k)
    /\ LET u == conn[k].user
           c == conn[k].conv
           text == Strip(raw)
           saved == Append(messages, NewMessage(c, u, text, reply_to))
           m == Len(messages) + 1
       IN  IF text = <<>>
           THEN /\ fault = "none"
                /\ out' = SendError(k, "Message content cannot be empty")
                /\ UNCHANGED <<messages, inbox, presence>>
           ELSE /\ Len(messages) < MaxMsgs
                /\ messages' = IF fault = "persist" THEN messages ELSE saved
                /\ inbox' = IF fault \in {"none", "clear"}
                            THEN GroupSend(inbox, c, ChatMessageEvent(k, saved, msgDeleted, m, u))
                            ELSE inbox
                /\ presence' = IF fault = "none" THEN ClearTypingStatus(presence, u)
                               ELSE presence
                /\ out' = IF fault = "none" THEN <<>>
                          ELSE SendError(k, "Failed to save message")
    /\ ops' = ops + 1
    /\ UNCHANGED <<conn, group, msgDeleted, convDeleted, reactions, readStatus, now, pending>>

(***************************************************************************)
(* receive -> handle_message_edit -> edit_message, serialize_message,      *)
(* group_send.                                                             *)
(***************************************************************************)
MessageEditedEvent(k, msgs, del, m, viewer) ==
    [type |-> "message_edited_broadcast", origin |-> k,
     message |-> SerializeMessage(msgs, del, m, viewer)]

\* A faulty lookup that finds the message whoever sent it.
GetAnyMessage(msgs, m, u) == m \in 1..Len(msgs)

\* edit_message: get_object_or_404(Message, message_id=..., sender=self.user)
GetOwnMessage(msgs, m, u) == m \in 1..Len(msgs) /\ msgs[m].sender = u

EditMessage(msgs, m, text) ==
    [msgs EXCEPT ![m] = [@ EXCEPT !.content = Encrypt(text), !.is_edited = TRUE,
                                  !.edited_at = now]]

ReceiveMessageEdit(k, m, raw, fault) ==
    /\ CanReceive(k)
    /\ LET u == conn[k].user
           c == conn[k].conv
           text == Strip(raw)
       IN  IF m = 0 \/ text = <<>>
           THEN /\ fault = "none"
                /\ out' = SendError(k, "Message ID and content are required")
                /\ UNCHANGED <<messages, inbox>>
           ELSE IF fault = "persist" \/ ~GetOwnMessage(messages, m, u)
           THEN /\ out' = SendError(k, "Failed to edit message")
                /\ UNCHANGED <<messages, inbox>>
           ELSE /\ messages' = EditMessage(messages, m, text)
                /\ inbox' = GroupSend(inbox, c,
                                MessageEditedEvent(k, EditMessage(messages, m, text),
                                                   msgDeleted, m, u))
                /\ out' = <<>>
    /\ fault \in {"none", "persist"}
    /\ ops' = ops + 1
    /\ UNCHANGED <<conn, group, msgDeleted, convDeleted, reactions, readStatus,
                   presence, now, pending>>

(***************************************************************************)
(* receive -> handle_message_delete -> delete_message_for_user, group_send.*)
(***************************************************************************)
\* A faulty soft delete that marks the message for every user.
GetOrCreateForEveryUser(table, key) ==
    [p \in DOMAIN table |-> IF p[1] = key[1] THEN 1 ELSE table[p]]

GetOrCreate(table, key) == IF Has(table, key) THEN table ELSE [table EXCEPT ![key] = 1]

MessageDeletedEvent(k, m, u) ==
    [type |-> "message_deleted_broadcast", origin |-> k, message_id |-> m, user_data |-> UserData(u)]

ReceiveMessageDelete(k, m, fault) ==
    /\ CanReceive(k)
    /\ LET u == conn[k].user
           c == conn[k].conv
       IN  IF m = 0
           THEN /\ fault = "none"
                /\ out' = SendError(k, "Message ID is required")
                /\ UNCHANGED <<msgDeleted, inbox>>
           ELSE IF fault = "persist" \/ ~Exists(m)
                   \/ u \notin Participants[messages[m].conv]
           THEN /\ out' = SendError(k, "Failed to delete message")
                /\ UNCHANGED <<msgDeleted, inbox>>
           ELSE /\ msgDeleted' = GetOrCreate(msgDeleted, <<m, u>>)
                /\ inbox' = GroupSend(inbox, c, MessageDeletedEvent(k, m, u))
                /\ out' = <<>>
    /\ fault \in {"none", "persist"}
    /\ ops' = ops + 1
    /\ UNCHANGED <<conn, group, messages, convDeleted, reactions, readStatus,
                   presence, now, pending>>


(***************************************************************************)
(* receive -> handle_reaction -> toggle_reaction, group_send.  The kind is *)
(* not checked against REACTION_CHOICES on this path.                      *)
(***************************************************************************)
ToggleAction(table, key) == IF Has(table, key) THEN "removed" ELSE "added"

\* A faulty toggle that creates a row on every call.
ToggleReactionAlwaysCreating(table, key) == [table EXCEPT ![key] = @ + 1]

ToggleReaction(table, key) ==
    IF Has(table, key) THEN [table EXCEPT ![key] = @ - 1]
    ELSE [table EXCEPT ![key] = 1]

(***************************************************************************)
(* reaction_obj.delete() removes the row that get_or_create returned.  A   *)
(* toggle in flight that was handed the same row holds a stale object once *)
(* the row is gone: its own delete then removes nothing.                   *)
(***************************************************************************)
MarkStale(pend, key, removed) ==
    IF removed
    THEN {[p EXCEPT !.stale = @ \/ (p.key = key /\ ~p.created)] : p \in pend}
    ELSE pend

ReactionEvent(k, m, kind, u, action) ==
    [type |-> "reaction_broadcast", origin |-> k, message_id |-> m, reaction |-> kind,
     user_data |-> UserData(u), action |-> action,
     reaction_data |-> IF action = "added"
                       THEN [reaction |-> kind, user |-> UserData(u)]
                       ELSE [reaction |-> "", user |-> UserData(NoUser)]]

ReceiveReaction(k, m, kind, fault) ==
    /\ CanReceive(k)
    /\ LET u == conn[k].user
           c == conn[k].conv
           key == <<m, u, kind>>
       IN  IF m = 0 \/ kind = ""
           THEN /\ fault = "none"
                /\ out' = SendError(k, "Message ID and reaction are required")
                /\ UNCHANGED <<reactions, inbox, pending>>
           ELSE IF fault = "persist" \/ ~Exists(m)
           THEN /\ out' = SendError(k, "Failed to process reaction")
                /\ UNCHANGED <<reactions, inbox, pending>>
           ELSE /\ reactions' = ToggleReaction(reactions, key)
                /\ pending' = MarkStale(pending, key, Has(reactions, key))
                /\ inbox' = GroupSend(inbox, c,
                                ReactionEvent(k, m, kind, u, ToggleAction(reactions, key)))
                /\ out' = <<>>
    /\ fault \in {"none", "persist"}
    /\ ops' = ops + 1
    /\ UNCHANGED <<conn, group, messages, msgDeleted, convDeleted, readStatus,
                   presence, now>>

(***************************************************************************)
(* receive -> handle_read_receipt -> mark_message_read, group_send.        *)
(* A frame without a message id is dropped without a reply.                *)
(***************************************************************************)
ReadReceiptEvent(k, m, u) ==
    [type |-> "read_receipt_broadcast", origin |-> k, message_id |-> m, user_data |-> UserData(u)]

ReceiveReadReceipt(k, m, fault) ==
    /\ CanReceive(k)
    /\ LET u == conn[k].user
           c == conn[k].conv
       IN  IF m = 0
           THEN /\ fault = "none"
                /\ out' = <<>>
                /\ UNCHANGED <<readStatus, inbox>>
           ELSE IF fault = "persist" \/ ~Exists(m)
           THEN /\ out' = SendError(k, "Failed to mark message as read")
                /\ UNCHANGED <<readStatus, inbox>>
           ELSE /\ readStatus' = [readStatus EXCEPT ![<<m, u>>] = now]
                /\ inbox' = GroupSend(inbox, c, ReadReceiptEvent(k, m, u))
                /\ out' = <<>>
    /\ fault \in {"none", "persist"}
    /\ ops' = ops + 1
    /\ UNCHANGED <<conn, group, messages, msgDeleted, convDeleted, reactions,
                   presence, now, pending>>

(***************************************************************************)
(* receive -> handle_user_typing -> set_typing_status, group_send.         *)
(***************************************************************************)
UserTypingEvent(k, u, is_typing) ==
    [type |-> "user_typing_broadcast", origin |-> k, user_data |-> UserData(u), is_typing |-> is_typing]

\* A faulty handler that publishes before it writes the store.
ReceiveUserTypingPublishingFirst(k, is_typing, fault) ==
    /\ CanReceive(k)
    /\ LET u == conn[k].user
           c == conn[k].conv
       IN  /\ inbox' = GroupSend(inbox, c, UserTypingEvent(k, u, is_typing))
           /\ IF fault = "persist"
              THEN /\ out' = SendError(k, "Failed to update typing status")
                   /\ UNCHANGED presence
              ELSE /\ presence' = SetTypingStatus(presence, u, c, is_typing)
                   /\ out' = <<>>
    /\ fault \in {"none", "persist"}
    /\ ops' = ops + 1
    /\ UNCHANGED <<conn, group, store, now, pending>>

ReceiveUserTyping(k, is_typing, fault) ==
    /\ CanReceive(k)
    /\ LET u == conn[k].user
           c == conn[k].conv
       IN  IF fault = "persist"
           THEN /\ out' = SendError(k, "Failed to update typing status")
                /\ UNCHANGED <<presence, inbox>>
           ELSE /\ presence' = SetTypingStatus(presence, u, c, is_typing)
                /\ inbox' = GroupSend(inbox, c, UserTypingEvent(k, u, is_typing))
                /\ out' = <<>>
    /\ fault \in {"none", "persist"}
    /\ ops' = ops + 1
    /\ UNCHANGED <<conn, group, store, now, pending>>

(***************************************************************************)
(* receive -> handle_ping.                                                 *)
(***************************************************************************)
ReceivePing(k) ==
    /\ CanReceive(k)
    /\ out' = <<[to |-> k, frame |-> [type |-> "pong"]]>>
    /\ ops' = ops + 1
    /\ UNCHANGED <<conn, group, inbox, store, presence, now, pending>>

(***************************************************************************)
(* receive with a text frame that no handler takes: text that is not JSON  *)
(* (JSONDecodeError), JSON that is not an object (data.get raises, caught  *)
(* by the last except), and an object whose type is missing or unknown.    *)
(***************************************************************************)
BadFrames == {"invalid_json", "not_object", "unknown_type"}

BadFrameError(bad) ==
    CASE bad = "invalid_json" -> "Invalid JSON format"
      [] bad = "not_object" -> "Server error"
      [] bad = "unknown_type" -> "Unknown event type"

ReceiveBadFrame(k, bad) ==
    /\ CanReceive(k)
    /\ out' = SendError(k, BadFrameError(bad))
    /\ ops' = ops + 1
    /\ UNCHANGED <<conn, group, inbox, store, presence, now, pending>>



(***************************************************************************)
(* The REST endpoints of chat/views.py that write the same tables and      *)
(* publish to the same groups.  The HTTP response is written to `out`      *)
(* with recipient 0.                                                       *)
(***************************************************************************)
Respond(status, body) ==
    <<[to |-> 0, frame |-> [type |-> "http", status |-> status, body |-> body]]>>

CanCall == ops < MaxOps

\* MessageListCreateView.perform_create
RestCreateMessage(u, c, raw, reply_to) ==
    /\ CanCall
    /\ LET text == Strip(raw)
           saved == Append(messages, NewMessage(c, u, text, reply_to))
           m == Len(messages) + 1
       IN  IF text = <<>>
           THEN /\ out' = Respond(400, "invalid")
                /\ UNCHANGED <<messages, inbox, presence>>
           ELSE IF u \notin Participants[c] \/ (reply_to # 0 /\ ~Exists(reply_to))
           THEN /\ out' = Respond(404, "not found")
                /\ UNCHANGED <<messages, inbox, presence>>
           ELSE /\ Len(messages) < MaxMsgs
                /\ messages' = saved
                /\ presence' = SetTypingStatus(presence, u, c, FALSE)
                /\ inbox' = GroupSend(inbox, c, ChatMessageEvent(0, saved, msgDeleted, m, u))
                /\ out' = Respond(201, "created")
    /\ ops' = ops + 1
    /\ UNCHANGED <<conn, group, msgDeleted, convDeleted, reactions, readStatus, now, pending>>

\* MessageDetailView.get_queryset / perform_update
RestEditMessage(u, m, raw) ==
    /\ CanCall
    /\ LET text == Strip(raw) IN
       IF ~Exists(m) \/ messages[m].sender # u \/ Has(msgDeleted, <<m, u>>)
       THEN /\ out' = Respond(404, "not found")
            /\ UNCHANGED <<messages, inbox>>
       ELSE IF text = <<>>
       THEN /\ out' = Respond(400, "invalid")
            /\ UNCHANGED <<messages, inbox>>
       ELSE /\ messages' = EditMessage(messages, m, text)
            /\ inbox' = GroupSend(inbox, messages[m].conv,
                            MessageEditedEvent(0, EditMessage(messages, m, text),
                                               msgDeleted, m, u))
            /\ out' = Respond(200, "updated")
    /\ ops' = ops + 1
    /\ UNCHANGED <<conn, group, msgDeleted, convDeleted, reactions, readStatus,
                   presence, now, pending>>

\* delete_message
RestDeleteMessage(u, m) ==
    /\ CanCall
    /\ IF ~Exists(m)
       THEN /\ out' = Respond(404, "not found")
            /\ UNCHANGED <<msgDeleted, inbox>>
       ELSE IF u \notin Participants[messages[m].conv]
       THEN /\ out' = Respond(403, "forbidden")
            /\ UNCHANGED <<msgDeleted, inbox>>
       ELSE /\ msgDeleted' = GetOrCreate(msgDeleted, <<m, u>>)
            /\ inbox' = IF Has(msgDeleted, <<m, u>>) THEN inbox
                        ELSE GroupSend(inbox, messages[m].conv, MessageDeletedEvent(0, m, u))
            /\ out' = IF Has(msgDeleted, <<m, u>>)
                      THEN Respond(200, "Message was already deleted")
                      ELSE Respond(200, "Message deleted successfully")
    /\ ops' = ops + 1
    /\ UNCHANGED <<conn, group, messages, convDeleted, reactions, readStatus,
                   presence, now, pending>>

\* restore_message
MessageRestoredEvent(k, msgs, del, m, viewer) ==
    [type |-> "message_restored_broadcast", origin |-> k,
     message |-> SerializeMessage(msgs, del, m, viewer)]

DeleteRow(table, key) == [table EXCEPT ![key] = @ - 1]

RestRestoreMessage(u, m) ==
    /\ CanCall
    /\ IF ~Exists(m)
       THEN /\ out' = Respond(404, "not found")
            /\ UNCHANGED <<msgDeleted, inbox>>
       ELSE IF ~Has(msgDeleted, <<m, u>>)
       THEN /\ out' = Respond(400, "Message was not deleted")
            /\ UNCHANGED <<msgDeleted, inbox>>
       ELSE /\ msgDeleted' = DeleteRow(msgDeleted, <<m, u>>)
            /\ inbox' = GroupSend(inbox, messages[m].conv,
                            MessageRestoredEvent(0, messages,
                                DeleteRow(msgDeleted, <<m, u>>), m, u))
            /\ out' = Respond(200, "Message restored successfully")
    /\ ops' = ops + 1
    /\ UNCHANGED <<conn, group, messages, convDeleted, reactions, readStatus,
                   presence, now, pending>>

\* delete_conversation
RestDeleteConversation(u, c) ==
    /\ CanCall
    /\ IF c \notin Convs \/ u \notin Participants[c]
       THEN /\ out' = Respond(404, "not found")
            /\ UNCHANGED convDeleted
       ELSE /\ convDeleted' = GetOrCreate(convDeleted, <<c, u>>)
            /\ out' = IF Has(convDeleted, <<c, u>>)
                      THEN Respond(200, "Conversation was already deleted")
                      ELSE Respond(200, "Conversation deleted successfully")
    /\ ops' = ops + 1
    /\ UNCHANGED <<conn, group, inbox, messages, msgDeleted, reactions, readStatus,
                   presence, now, pending>>

\* restore_conversation
RestRestoreConversation(u, c) ==
    /\ CanCall
    /\ IF c \notin Convs \/ u \notin Participants[c]
       THEN /\ out' = Respond(404, "not found")
            /\ UNCHANGED convDeleted
       ELSE IF ~Has(convDeleted, <<c, u>>)
       THEN /\ out' = Respond(400, "Conversation was not deleted")
            /\ UNCHANGED convDeleted
       ELSE /\ convDeleted' = DeleteRow(convDeleted, <<c, u>>)
            /\ out' = Respond(200, "Conversation restored successfully")
    /\ ops' = ops + 1
    /\ UNCHANGED <<conn, group, inbox, messages, msgDeleted, reactions, readStatus,
                   presence, now, pending>>

\* mark_messages_read: the latest message of the conversation that the user
\* has not deleted (Message.Meta.ordering is newest first).
Visible(u, c) == {m \in 1..Len(messages) : messages[m].conv = c /\ ~Has(msgDeleted, <<m, u>>)}

Latest(S) == CHOOSE m \in S : \A n \in S : n <= m

\* MessageListCreateView.get_queryset with MessageSerializer, and
\* ConversationSerializer.get_last_message: what user u is shown of
\* conversation c when the tables are msgs and del.  Message.is_deleted is
\* never set by the application and is left out.
VisibleIn(msgs, del, u, c) ==
    {m \in 1..Len(msgs) : msgs[m].conv = c /\ ~Has(del, <<m, u>>)}

MessageListOf(msgs, del, u, c) ==
    {SerializeMessage(msgs, del, m, u) : m \in VisibleIn(msgs, del, u, c)}

LastMessageOf(msgs, del, u, c) ==
    IF VisibleIn(msgs, del, u, c) = {} THEN <<>>
    ELSE <<SerializeMessage(msgs, del, Latest(VisibleIn(msgs, del, u, c)), u)>>

RestMarkRead(u, c) ==
    /\ CanCall
    /\ IF c \notin Convs \/ u \notin Participants[c]
       THEN /\ out' = Respond(404, "not found")
            /\ UNCHANGED <<readStatus, inbox>>
       ELSE IF Visible(u, c) = {}
       THEN /\ out' = Respond(200, "Messages marked as read")
            /\ UNCHANGED <<readStatus, inbox>>
       ELSE /\ readStatus' = [readStatus EXCEPT ![<<Latest(Visible(u, c)), u>>] = now]
            /\ inbox' = GroupSend(inbox, c, ReadReceiptEvent(0, Latest(Visible(u, c)), u))
            /\ out' = Respond(200, "Messages marked as read")
    /\ ops' = ops + 1
    /\ UNCHANGED <<conn, group, messages, msgDeleted, convDeleted, reactions,
                   presence, now, pending>>

\* add_reaction: the rows it leaves and the event it publishes, to the room
\* of the message's conversation.
AddReactionRows(table, u, m, kind) == ToggleReaction(table, <<m, u, kind>>)

AddReactionPublish(box, u, m, kind) ==
    GroupSend(box, messages[m].conv,
              ReactionEvent(0, m, kind, u, ToggleAction(reactions, <<m, u, kind>>)))

RestAddReaction(u, m, kind) ==
    /\ CanCall
    /\ IF ~Exists(m)
       THEN /\ out' = Respond(404, "not found")
            /\ UNCHANGED <<reactions, inbox, pending>>
       ELSE IF kind \notin ReactionChoices
       THEN /\ out' = Respond(400, "Invalid reaction")
            /\ UNCHANGED <<reactions, inbox, pending>>
       ELSE /\ reactions' = AddReactionRows(reactions, u, m, kind)
            /\ pending' = MarkStale(pending, <<m, u, kind>>, Has(reactions, <<m, u, kind>>))
            /\ inbox' = AddReactionPublish(inbox, u, m, kind)
            /\ out' = Respond(200, ToggleAction(reactions, <<m, u, kind>>))
    /\ ops' = ops + 1
    /\ UNCHANGED <<conn, group, messages, msgDeleted, convDeleted, readStatus,
                   presence, now>>

\* set_typing_status
RestSetTyping(u, c, is_typing) ==
    /\ CanCall
    /\ IF c \notin Convs \/ u \notin Participants[c]
       THEN /\ out' = Respond(404, "not found")
            /\ UNCHANGED <<presence, inbox>>
       ELSE /\ presence' = SetTypingStatus(presence, u, c, is_typing)
            /\ inbox' = GroupSend(inbox, c, UserTypingEvent(0, u, is_typing))
            /\ out' = Respond(200, "Typing status updated")
    /\ ops' = ops + 1
    /\ UNCHANGED <<conn, group, store, now, pending>>

\* update_user_status: the posted value is stored as it is (save() does not
\* run the field's choices validation) and a status event is published to
\* every conversation of the user that the user has not soft-deleted.
StatusInputs == StatusChoices \cup {"invisible"}

OwnRooms(u) == {c \in Convs : u \in Participants[c] /\ ~Has(convDeleted, <<c, u>>)}

RestUpdateStatus(u, status) ==
    /\ CanCall
    /\ presence' = SetUserStatus(presence, u, status)
    /\ inbox' = SendTo(inbox, UNION {group[c] : c \in OwnRooms(u)},
                       StatusEvent(0, u, status))
    /\ out' = Respond(200, "Status updated")
    /\ ops' = ops + 1
    /\ UNCHANGED <<conn, group, store, now, pending>>

(***************************************************************************)
(* A reaction toggle statement by statement, as it runs when another       *)
(* toggle of the same triple runs at the same time (a second connection,   *)
(* or the REST view): get_or_create is one statement, the delete of the    *)
(* row it returned and the group_send come later.  Nothing in              *)
(* toggle_reaction or add_reaction locks the row or opens a transaction.   *)
(* ReceiveReaction and RestAddReaction are the same calls running          *)
(* undisturbed.                                                            *)
(***************************************************************************)
Call(id, k, u, key, created) ==
    [id |-> id, origin |-> k, user |-> u, key |-> key, created |-> created,
     stale |-> FALSE]

BeginReaction(k, m, kind) ==
    /\ CanReceive(k)
    /\ Exists(m)
    /\ kind # ""
    /\ LET key == <<m, conn[k].user, kind>> IN
       /\ reactions' = GetOrCreate(reactions, key)
       /\ pending' = pending \cup {Call(ops + 1, k, conn[k].user, key, ~Has(reactions, key))}
    /\ ops' = ops + 1
    /\ out' = <<>>
    /\ UNCHANGED <<conn, group, inbox, messages, msgDeleted, convDeleted, readStatus,
                   presence, now>>

RestBeginReaction(u, m, kind) ==
    /\ CanCall
    /\ Exists(m)
    /\ kind \in ReactionChoices
    /\ LET key == <<m, u, kind>> IN
       /\ reactions' = GetOrCreate(reactions, key)
       /\ pending' = pending \cup {Call(ops + 1, 0, u, key, ~Has(reactions, key))}
    /\ ops' = ops + 1
    /\ out' = <<>>
    /\ UNCHANGED <<conn, group, inbox, messages, msgDeleted, convDeleted, readStatus,
                   presence, now>>

FinishReaction(p) ==
    /\ p \in pending
    /\ LET removed == ~p.created /\ ~p.stale
           action == IF p.created THEN "added" ELSE "removed"
           room == IF p.origin = 0 THEN messages[p.key[1]].conv ELSE conn[p.origin].conv
       IN  /\ reactions' = IF removed THEN DeleteRow(reactions, p.key) ELSE reactions
           /\ pending' = MarkStale(pending \ {p}, p.key, removed)
           /\ inbox' = GroupSend(inbox, room,
                           ReactionEvent(p.origin, p.key[1], p.key[3], p.user, action))
           /\ out' = IF p.origin = 0 THEN Respond(200, action) ELSE <<>>
    /\ UNCHANGED <<conn, group, messages, msgDeleted, convDeleted, readStatus,
                   presence, now, ops>>

(***************************************************************************)
(* ConversationSerializer.get_typing_users for the viewer: the users whose *)
(* UserStatus points at the conversation and whose typing_started_at is    *)
(* within the last TypingWindow seconds (a NULL start matches no filter).  *)
(***************************************************************************)
\* A faulty filter that does not look at the start of the typing.
TypingUsersOfAnyAge(pres, t, c, viewer) ==
    {u \in Users \ {viewer} : pres[u].exists /\ pres[u].typing_in = c}

TypingUsersOf(pres, t, c, viewer) ==
    {u \in Users \ {viewer} :
        /\ pres[u].exists
        /\ pres[u].typing_in = c
        /\ pres[u].typing_started_at # -1
        /\ pres[u].typing_started_at >= t - TypingWindow}

\* ConversationDetailView (GET): the conversation summary of c for user u.
ConversationSummary(u, c) ==
    [type |-> "conversation", conversation_id |-> c,
     last_message |-> LastMessageOf(messages, msgDeleted, u, c),
     typing_users |-> TypingUsersOf(presence, now, c, u)]

RestGetConversation(u, c) ==
    /\ CanCall
    /\ out' = IF c \notin Convs \/ u \notin Participants[c] \/ Has(convDeleted, <<c, u>>)
              THEN Respond(404, "not found")
              ELSE <<[to |-> 0, frame |-> ConversationSummary(u, c)]>>
    /\ ops' = ops + 1
    /\ UNCHANGED <<conn, group, inbox, store, presence, now, pending>>

(***************************************************************************)
(* Time passes (timezone.now() is read by the handlers and the serializer), *)
(* in steps that end on either side of the typing window.                  *)
(***************************************************************************)
TickSteps == {TypingWindow, TypingWindow + 1}

Tick(d) ==
    /\ now + d <= MaxTime
    /\ now' = now + d
    /\ out' = <<>>
    /\ UNCHANGED <<conn, group, inbox, store, presence, ops, pending>>

Faults == {"none", "persist"}

(***************************************************************************)
(* The whole system: every handler with every input.                       *)
(***************************************************************************)
Next ==
    \/ \E k \in Conns, cred \in Creds, c \in ConvIds : Connect(k, cred, c)
    \/ \E k \in Conns : Disconnect(k)
    \/ \E k \in Conns : Deliver(k)
    \/ \E k \in Conns, raw \in ContentInputs, r \in MsgIdInputs,
          f \in Faults \cup {"touch", "clear"} : ReceiveChatMessage(k, raw, r, f)
    \/ \E k \in Conns, m \in MsgIdInputs, raw \in ContentInputs, f \in Faults :
          ReceiveMessageEdit(k, m, raw, f)
    \/ \E k \in Conns, m \in MsgIdInputs, f \in Faults : ReceiveMessageDelete(k, m, f)
    \/ \E k \in Conns, m \in MsgIdInputs, kind \in ReactionInputs, f \in Faults :
          ReceiveReaction(k, m, kind, f)
    \/ \E k \in Conns, m \in MsgIdInputs, f \in Faults : ReceiveReadReceipt(k, m, f)
    \/ \E k \in Conns, t \in BOOLEAN, f \in Faults : ReceiveUserTyping(k, t, f)
    \/ \E k \in Conns : ReceivePing(k)
    \/ \E k \in Conns, bad \in BadFrames : ReceiveBadFrame(k, bad)
    \/ \E u \in Users, c \in Convs, raw \in ContentInputs, r \in MsgIdInputs :
          RestCreateMessage(u, c, raw, r)
    \/ \E u \in Users, m \in MsgIdInputs \ {0}, raw \in ContentInputs :
          RestEditMessage(u, m, raw)
    \/ \E u \in Users, m \in MsgIdInputs \ {0} : RestDeleteMessage(u, m)
    \/ \E u \in Users, m \in MsgIdInputs \ {0} : RestRestoreMessage(u, m)
    \/ \E u \in Users, c \in ConvIds : RestDeleteConversation(u, c)
    \/ \E u \in Users, c \in ConvIds : RestRestoreConversation(u, c)
    \/ \E u \in Users, c \in ConvIds : RestMarkRead(u, c)
    \/ \E u \in Users, m \in MsgIdInputs \ {0}, kind \in ReactionInputs \ {""} :
          RestAddReaction(u, m, kind)
    \/ \E u \in Users, c \in ConvIds, t \in BOOLEAN : RestSetTyping(u, c, t)
    \/ \E u \in Users, c \in ConvIds : RestGetConversation(u, c)
    \/ \E u \in Users, status \in StatusInputs : RestUpdateStatus(u, status)
    \/ \E d \in TickSteps : Tick(d)
    \/ \E k \in Conns, m \in MsgIds, kind \in ReactionInputs : BeginReaction(k, m, kind)
    \/ \E u \in Users, m \in MsgIds, kind \in ReactionInputs : RestBeginReaction(u, m, kind)
    \/ \E p \in pending : FinishReaction(p)

Spec == Init /\ [][Next]_vars

(***************************************************************************)
(* Workloads.  Each specification below runs the same actions on a part of *)
(* the inputs, so that TLC explores it to the end: every step of each is a *)
(* step of Next.  Room 1 has the members A and B; QueryCred(u) is a valid  *)
(* token of u in the query string.                                         *)
(***************************************************************************)
QueryCred(u) == [query |-> [kind |-> "valid", uid |-> u], header |-> NoToken]

Members == Participants[1]

JoinRoom ==
    \/ \E k \in Conns, u \in Members : Connect(k, QueryCred(u), 1)
    \/ \E k \in Conns : Disconnect(k)
    \/ \E k \in Conns : Deliver(k)

\* Handshakes with every credential on every conversation id, while
\* conversations are soft-deleted and restored over REST.
NextHandshake ==
    \/ \E k \in Conns, cred \in Creds, c \in ConvIds : Connect(k, cred, c)
    \/ \E k \in Conns : Disconnect(k)
    \/ \E k \in Conns : Deliver(k)
    \/ \E u \in Users, c \in ConvIds : RestDeleteConversation(u, c)
    \/ \E u \in Users, c \in ConvIds : RestRestoreConversation(u, c)

SpecHandshake == Init /\ [][NextHandshake]_vars

\* Messages of room 1: sent, edited, soft-deleted and restored, while a
\* member soft-deletes the conversation.
NextMessages ==
    \/ JoinRoom
    \/ \E k \in Conns, r \in 0..1 : ReceiveChatMessage(k, <<" ", "b">>, r, "none")
    \/ \E k \in Conns, m \in MsgIds, raw \in {<<"c">>} :
          ReceiveMessageEdit(k, m, raw, "none")
    \/ \E k \in Conns, m \in MsgIds : ReceiveMessageDelete(k, m, "none")
    \/ \E u \in Members, m \in MsgIds : RestRestoreMessage(u, m)
    \/ \E u \in Members, m \in MsgIds : RestDeleteMessage(u, m)
    \/ \E u \in Members : RestDeleteConversation(u, 1)

SpecMessages == Init /\ [][NextMessages]_vars

\* Reactions, read receipts and typing notices of room 1.
NextSignals ==
    \/ JoinRoom
    \/ \E k \in Conns : ReceiveChatMessage(k, <<"a">>, 0, "none")
    \/ \E k \in Conns, m \in MsgIds, kind \in {"like", "bogus"} :
          ReceiveReaction(k, m, kind, "none")
    \/ \E k \in Conns, m \in MsgIds : ReceiveReadReceipt(k, m, "none")
    \/ \E k \in Conns, t \in BOOLEAN : ReceiveUserTyping(k, t, "none")
    \/ \E u \in Members, m \in MsgIds, kind \in {"like", "bogus"} :
          RestAddReaction(u, m, kind)

SpecSignals == Init /\ [][NextSignals]_vars

\* Frames that fail: store faults in every handler, and frames that no
\* handler takes.
NextFaults ==
    \/ JoinRoom
    \/ \E k \in Conns, f \in Faults \cup {"touch", "clear"} :
          ReceiveChatMessage(k, <<"a">>, 0, f)
    \/ \E k \in Conns, m \in MsgIds, f \in Faults : ReceiveMessageEdit(k, m, <<"c">>, f)
    \/ \E k \in Conns, m \in MsgIds, f \in Faults : ReceiveMessageDelete(k, m, f)
    \/ \E k \in Conns, m \in MsgIds, f \in Faults : ReceiveReaction(k, m, "like", f)
    \/ \E k \in Conns, m \in MsgIds, f \in Faults : ReceiveReadReceipt(k, m, f)
    \/ \E k \in Conns, f \in Faults : ReceiveUserTyping(k, TRUE, f)
    \/ \E k \in Conns, bad \in BadFrames : ReceiveBadFrame(k, bad)

SpecFaults == Init /\ [][NextFaults]_vars

\* Frames with blank text or without a required field, next to well-formed
\* ones.  Message id 0 stands for a missing (or falsy) id, "" for a missing
\* reaction.
BlankTexts == {<<>>, <<" ">>}

NextValidation ==
    \/ JoinRoom
    \/ \E k \in Conns, raw \in BlankTexts \cup {<<"a">>} :
          ReceiveChatMessage(k, raw, 0, "none")
    \/ \E k \in Conns, m \in 0..1, raw \in {<<" ">>, <<"c">>} :
          ReceiveMessageEdit(k, m, raw, "none")
    \/ \E k \in Conns, m \in 0..1 : ReceiveMessageDelete(k, m, "none")
    \/ \E k \in Conns, m \in 0..1, kind \in {"", "like"} :
          ReceiveReaction(k, m, kind, "none")
    \/ \E k \in Conns, m \in 0..1 : ReceiveReadReceipt(k, m, "none")

SpecValidation == Init /\ [][NextValidation]_vars

\* Both rooms: every account connects to conversation 1 or 2 (B is in both),
\* messages are sent and reacted to over the socket and over REST, and
\* typing notices are sent.
NextRooms ==
    \/ \E k \in Conns, u \in Users, c \in Convs : Connect(k, QueryCred(u), c)
    \/ \E k \in Conns : Disconnect(k)
    \/ \E k \in Conns : Deliver(k)
    \/ \E k \in Conns : ReceiveChatMessage(k, <<"a">>, 0, "none")
    \/ \E k \in Conns, m \in MsgIds : ReceiveReaction(k, m, "like", "none")
    \/ \E u \in Users, m \in MsgIds : RestAddReaction(u, m, "like")
    \/ \E k \in Conns : ReceiveUserTyping(k, TRUE, "none")

SpecRooms == Init /\ [][NextRooms]_vars

\* Typing notices of room 1 while time passes, and the conversation summary
\* read over REST.
NextTyping ==
    \/ \E k \in Conns, u \in Members : Connect(k, QueryCred(u), 1)
    \/ \E k \in Conns : Disconnect(k)
    \/ \E k \in Conns, t \in BOOLEAN : ReceiveUserTyping(k, t, "none")
    \/ \E u \in Members : RestSetTyping(u, 1, TRUE)
    \/ \E k \in Conns : ReceiveChatMessage(k, <<"a">>, 0, "none")
    \/ \E u \in Members : RestGetConversation(u, 1)
    \/ \E d \in TickSteps : Tick(d)

SpecTyping == Init /\ [][NextTyping]_vars

\* Concurrent toggles of one triple.  The store holds one message, which A
\* has sent to conversation 1 over REST; after that, A's connections and
\* A's REST calls only toggle "like" on it, so that `ops` counts the
\* toggles that were started.
InitToggle ==
    /\ conn = [k \in Conns |-> FreshConn]
    /\ group = [c \in ConvIds |-> {}]
    /\ inbox = [k \in Conns |-> <<>>]
    /\ messages = <<[conv |-> 1, sender |-> "A", content |-> Encrypt(<<"a">>),
                     is_edited |-> FALSE, edited_at |-> -1, reply_to |-> 0]>>
    /\ msgDeleted = [p \in MsgIds \X Users |-> 0]
    /\ convDeleted = [p \in Convs \X Users |-> 0]
    /\ reactions = [p \in MsgIds \X Users \X (ReactionInputs \ {""}) |-> 0]
    /\ readStatus = [p \in MsgIds \X Users |-> -1]
    /\ presence = [u \in Users |-> IF u = "A" THEN [NoPresence EXCEPT !.exists = TRUE]
                                   ELSE NoPresence]
    /\ now = 0
    /\ ops = 0
    /\ out = <<>>
    /\ pending = {}

NextToggle ==
    \/ \E k \in Conns : Connect(k, QueryCred("A"), 1)
    \/ \E k \in Conns : Deliver(k)
    \/ \E k \in Conns : BeginReaction(k, 1, "like")
    \/ RestBeginReaction("A", 1, "like")
    \/ \E p \in pending : FinishReaction(p)

SpecToggle == InitToggle /\ [][NextToggle]_vars

\* Frames of one connection in a row: messages sent and edited and
\* reactions toggled statement by statement in room 1, with no connection
\* leaving.
NextOrder ==
    \/ \E k \in Conns, u \in Members : Connect(k, QueryCred(u), 1)
    \/ \E k \in Conns : Deliver(k)
    \/ \E k \in Conns : ReceiveChatMessage(k, <<"a">>, 0, "none")
    \/ \E k \in Conns, m \in MsgIds : ReceiveMessageEdit(k, m, <<"c">>, "none")
    \/ \E k \in Conns, m \in MsgIds : BeginReaction(k, m, "like")
    \/ \E p \in pending : FinishReaction(p)

SpecOrder == Init /\ [][NextOrder]_vars

\* Presence: connections of the members of room 1 come and go while the
\* members post status updates over REST, with a status of the enum and
\* with one that is not.
NextPresence ==
    \/ JoinRoom
    \/ \E u \in Members, status \in {"away", "invisible"} : RestUpdateStatus(u, status)

SpecPresence == Init /\ [][NextPresence]_vars

\* Both rooms with messages that name a message: every account connects to
\* conversation 1 or 2, sends messages that reply to nothing or to message
\* 1, and edits message 1.
NextIsolation ==
    \/ \E k \in Conns, u \in Users, c \in Convs : Connect(k, QueryCred(u), c)
    \/ \E k \in Conns : Deliver(k)
    \/ \E k \in Conns, r \in 0..1 : ReceiveChatMessage(k, <<"a">>, r, "none")
    \/ \E k \in Conns : ReceiveMessageEdit(k, 1, <<"c">>, "none")

SpecIsolation == Init /\ [][NextIsolation]_vars

(***************************************************************************)
(* Properties of the handshake, checked under SpecHandshake.               *)
(***************************************************************************)

(***************************************************************************)
(* C2 -- Admission control.  A handshake of an authenticated user u on     *)
(* conversation c is closed with the access-denied code 4003, is not       *)
(* accepted and is in no room exactly when c does not exist, u is not a    *)
(* participant of c, or u holds a ConversationDeletion for c; otherwise it *)
(* is accepted and subscribed in the room of c.  A connection closed with  *)
(* 4003 is in no room afterwards.                                          *)
(***************************************************************************)
AdmissionControl ==
    [][/\ \A k \in Conns :
          conn[k] # conn'[k] =>
          \A cred \in Creds, c \in ConvIds :
            (Connect(k, cred, c) /\ AuthenticateUser(cred) # NoUser) =>
                LET u == AuthenticateUser(cred)
                    denied == \/ c \notin Convs
                              \/ u \notin Participants[c]
                              \/ convDeleted[<<c, u>>] > 0
                IN  IF denied
                    THEN /\ conn'[k].state = "Closed"
                         /\ conn'[k].code = AccessDeniedCode
                         /\ ~conn'[k].accepted
                         /\ \A d \in ConvIds : k \notin group'[d]
                    ELSE /\ conn'[k].state = "Subscribed"
                         /\ conn'[k].user = u
                         /\ conn'[k].conv = c
                         /\ conn'[k].accepted
                         /\ k \in group'[c]
       /\ \A j \in Conns :
            conn'[j].code = AccessDeniedCode =>
                /\ conn'[j].state = "Closed"
                /\ \A d \in ConvIds : j \notin group'[d]
      ]_vars

\* A participant who soft-deleted the conversation was turned away with 4003
\* while another connection is subscribed.
AdmissionControlWitness ==
    \E k \in Conns, j \in Conns :
        /\ conn[k].state = "Closed"
        /\ conn[k].code = AccessDeniedCode
        /\ conn[k].conv \in Convs
        /\ conn[k].user \in Participants[conn[k].conv]
        /\ convDeleted[<<conn[k].conv, conn[k].user>>] > 0
        /\ \A d \in ConvIds : k \notin group[d]
        /\ conn[j].state = "Subscribed"

(***************************************************************************)
(* C3 -- Authentication at the handshake.  The token a handshake presents  *)
(* is the one of the query string, else the bearer token of the header.    *)
(* When it is missing, invalid, expired or names no account, the           *)
(* connection is closed with 4001 -- whatever the conversation id, so      *)
(* before any membership check and never with 4003 --, it is not accepted, *)
(* it is in no room, and rooms and presence are untouched.  4001 and 4003  *)
(* are different codes.                                                    *)
(***************************************************************************)
AuthenticationAtHandshake ==
    [][/\ AuthFailedCode # AccessDeniedCode
       /\ \A k \in Conns :
          conn[k] # conn'[k] =>
          \A cred \in Creds, c \in ConvIds :
            LET token == IF cred.query # NoToken THEN cred.query ELSE cred.header
                bad == token.kind \in {"absent", "invalid", "expired"}
                       \/ token.uid \notin Users
            IN  (Connect(k, cred, c) /\ bad) =>
                    /\ conn'[k].state = "Closed"
                    /\ conn'[k].code = AuthFailedCode
                    /\ ~conn'[k].accepted
                    /\ \A d \in ConvIds : k \notin group'[d]
                    /\ UNCHANGED <<group, presence, inbox>>
       /\ \A j \in Conns :
            conn'[j].code = AuthFailedCode =>
                /\ conn'[j].state = "Closed"
                /\ ~conn'[j].accepted
                /\ \A d \in ConvIds : j \notin group'[d]
      ]_vars

\* A handshake on an existing conversation was closed with 4001 and another
\* one was admitted.
AuthenticationAtHandshakeWitness ==
    \E k \in Conns, j \in Conns :
        /\ conn[k].state = "Closed"
        /\ conn[k].code = AuthFailedCode
        /\ conn[k].conv \in Convs
        /\ ~conn[k].accepted
        /\ \A d \in ConvIds : k \notin group[d]
        /\ conn[j].state = "Subscribed"

(***************************************************************************)
(* Properties of reactions, read receipts and typing notices, checked      *)
(* under SpecSignals.                                                      *)
(***************************************************************************)

(***************************************************************************)
(* C4, as the code has it -- A read-receipt or typing event is published   *)
(* to every connection of the room, and at delivery it is written to the   *)
(* connection exactly when the connection's user is not the user of the    *)
(* event: no connection of the originating user gets it, the originating   *)
(* one and that user's other connections alike, and every connection of    *)
(* another member gets it with the event's user and is_typing.             *)
(***************************************************************************)
ReceiptsAndTypingSkipTheUser ==
    [][/\ \A k \in Conns :
            (Deliver(k) /\ Head(inbox[k]).type \in
                              {"read_receipt_broadcast", "user_typing_broadcast"}) =>
                LET ev == Head(inbox[k]) IN
                IF ev.user_data.acc_id = conn[k].user
                THEN out' = <<>>
                ELSE /\ Len(out') = 1
                     /\ out'[1].to = k
                     /\ out'[1].frame.user_data = ev.user_data
                     /\ IF ev.type = "user_typing_broadcast"
                        THEN /\ out'[1].frame.type = "user_typing"
                             /\ out'[1].frame.is_typing = ev.is_typing
                        ELSE /\ out'[1].frame.type = "read_receipt"
                             /\ out'[1].frame.message_id = ev.message_id
       /\ \A k \in Conns :
            (ops' # ops /\ IsSubscribed(k)) =>
                /\ \A t \in BOOLEAN :
                    ReceiveUserTyping(k, t, "none") =>
                        \A j \in group[conn[k].conv] :
                            /\ Len(inbox'[j]) = Len(inbox[j]) + 1
                            /\ LastOf(inbox'[j]).type = "user_typing_broadcast"
                            /\ LastOf(inbox'[j]).user_data.acc_id = conn[k].user
                            /\ LastOf(inbox'[j]).is_typing = t
                /\ \A m \in MsgIds :
                    (ReceiveReadReceipt(k, m, "none") /\ Exists(m)) =>
                        \A j \in group[conn[k].conv] :
                            /\ Len(inbox'[j]) = Len(inbox[j]) + 1
                            /\ LastOf(inbox'[j]).type = "read_receipt_broadcast"
                            /\ LastOf(inbox'[j]).user_data.acc_id = conn[k].user
                            /\ LastOf(inbox'[j]).message_id = m
      ]_vars

\* B's connection has just been written A's typing notice, is_typing = true,
\* while A is connected.
ReceiptsAndTypingWitness ==
    \E k \in Conns, j \in Conns :
        /\ IsSubscribed(k) /\ conn[k].user = "B"
        /\ IsSubscribed(j) /\ conn[j].user = "A"
        /\ Len(out) = 1
        /\ out[1].to = k
        /\ out[1].frame.type = "user_typing"
        /\ out[1].frame.is_typing
        /\ out[1].frame.user_data.acc_id = "A"
        /\ out[1].frame.origin = j

\* C4, as the claim has it -- only the originating connection is left out:
\* every other connection, the originating user's other connections
\* included, is written the event.
OnlyTheOriginatingConnectionIsSkipped ==
    [][\A k \in Conns :
            (Deliver(k) /\ Head(inbox[k]).type \in
                              {"read_receipt_broadcast", "user_typing_broadcast"}) =>
                /\ Head(inbox[k]).origin = k => out' = <<>>
                /\ Head(inbox[k]).origin # k => Len(out') = 1
      ]_vars

(***************************************************************************)
(* C5 -- Reaction toggle.  A react call on an existing message M by user U *)
(* with kind K, over the socket or over REST: with no Reaction(M,U,K) it   *)
(* leaves exactly one and reports "added"; with one it leaves none and     *)
(* reports "removed"; no other triple changes.  No state holds more than   *)
(* one Reaction row for a triple.                                          *)
(***************************************************************************)
ReactionToggle ==
    [][/\ \A key \in DOMAIN reactions : reactions'[key] <= 1
       /\ \A k \in Conns :
            (ops' # ops /\ IsSubscribed(k)) =>
                \A m \in MsgIds, kind \in ReactionInputs \ {""} :
                    (ReceiveReaction(k, m, kind, "none") /\ Exists(m)) =>
                        LET key == <<m, conn[k].user, kind>> IN
                        /\ reactions[key] = 0 =>
                              /\ reactions'[key] = 1
                              /\ LastOf(inbox'[k]).action = "added"
                        /\ reactions[key] = 1 =>
                              /\ reactions'[key] = 0
                              /\ LastOf(inbox'[k]).action = "removed"
                        /\ LastOf(inbox'[k]).type = "reaction_broadcast"
                        /\ \A other \in DOMAIN reactions \ {key} :
                              reactions'[other] = reactions[other]
       /\ ops' # ops =>
            \A u \in Users, m \in MsgIds, kind \in ReactionChoices :
                (RestAddReaction(u, m, kind) /\ Exists(m)) =>
                    LET key == <<m, u, kind>> IN
                    /\ reactions[key] = 0 =>
                          /\ reactions'[key] = 1
                          /\ out'[1].frame.body = "added"
                    /\ reactions[key] = 1 =>
                          /\ reactions'[key] = 0
                          /\ out'[1].frame.body = "removed"
                    /\ \A other \in DOMAIN reactions \ {key} :
                          reactions'[other] = reactions[other]
      ]_vars

\* A second identical react call has just been published as "removed" and
\* the row is gone.
ReactionToggleWitness ==
    \E k \in Conns :
        /\ IsSubscribed(k)
        /\ inbox[k] # <<>>
        /\ LastOf(inbox[k]).type = "reaction_broadcast"
        /\ LastOf(inbox[k]).action = "removed"
        /\ LastOf(inbox[k]).origin = k
        /\ reactions[<<LastOf(inbox[k]).message_id, conn[k].user,
                       LastOf(inbox[k]).reaction>>] = 0

(***************************************************************************)
(* Properties of messages, checked under SpecMessages.                     *)
(***************************************************************************)

(***************************************************************************)
(* C1 -- Soft-delete visibility in broadcasts.  When the author edits      *)
(* message M, or a message replying to M is sent, while a member U of the  *)
(* room holds a MessageDeletion for M, the frame that U's connection is    *)
(* written for the event does not carry the content of M.                  *)
(***************************************************************************)
DeletedContentStaysHidden ==
    [][\A k \in Conns :
            (ops' # ops /\ IsSubscribed(k)) =>
                \A m \in MsgIds, raw \in ContentInputs :
                    /\ (ReceiveMessageEdit(k, m, raw, "none") /\ messages' # messages) =>
                          \A j \in group[conn[k].conv] :
                              msgDeleted[<<m, conn[j].user>>] > 0 =>
                                  \A f \in DOMAIN Broadcaster(LastOf(inbox'[j]), conn[j].user) :
                                      Broadcaster(LastOf(inbox'[j]), conn[j].user)[f]
                                          .message.content # Decrypt(messages'[m].content)
                    /\ (ReceiveChatMessage(k, raw, m, "none") /\ messages' # messages
                          /\ Exists(m)) =>
                          \A j \in group[conn[k].conv] :
                              msgDeleted[<<m, conn[j].user>>] > 0 =>
                                  \A f \in DOMAIN Broadcaster(LastOf(inbox'[j]), conn[j].user) :
                                      Broadcaster(LastOf(inbox'[j]), conn[j].user)[f]
                                          .message.reply_to.content
                                              # Preview(Decrypt(messages[m].content))
      ]_vars

(***************************************************************************)
(* C6, as the code has it -- A message-deleted event for M is written to a *)
(* connection exactly when the connection's user holds no MessageDeletion  *)
(* for M at delivery.  The requester's connections are skipped as long as  *)
(* the requester's marker is still there at delivery.                      *)
(***************************************************************************)
DeletedNoticeFilter ==
    [][\A k \in Conns :
            (Deliver(k) /\ Head(inbox[k]).type = "message_deleted_broadcast") =>
                LET ev == Head(inbox[k]) IN
                IF msgDeleted[<<ev.message_id, conn[k].user>>] > 0
                THEN out' = <<>>
                ELSE /\ Len(out') = 1
                     /\ out'[1].to = k
                     /\ out'[1].frame.type = "message_deleted"
                     /\ out'[1].frame.message_id = ev.message_id
                     /\ out'[1].frame.user_data = ev.user_data
      ]_vars

\* A member who has not deleted M has just been written the notice of the
\* requester, who is connected and holds the marker.
DeletedNoticeWitness ==
    \E k \in Conns, j \in Conns :
        /\ Len(out) = 1
        /\ out[1].to = k
        /\ out[1].frame.type = "message_deleted"
        /\ IsSubscribed(k)
        /\ IsSubscribed(j)
        /\ conn[j].user = out[1].frame.user_data.acc_id
        /\ conn[k].user # conn[j].user
        /\ msgDeleted[<<out[1].frame.message_id, conn[j].user>>] > 0
        /\ msgDeleted[<<out[1].frame.message_id, conn[k].user>>] = 0

\* C6, as the claim has it -- the notice is never written to a connection
\* of the requester.
DeletedNoticeNeverToRequester ==
    [][\A k \in Conns :
            (Deliver(k) /\ Head(inbox[k]).type = "message_deleted_broadcast") =>
                (Head(inbox[k]).user_data.acc_id = conn[k].user => out' = <<>>)
      ]_vars

NoDeliveryAfterConversationDeleted ==
    [][\A k \in Conns :
            (Deliver(k) /\ convDeleted[<<conn[k].conv, conn[k].user>>] > 0) => out' = <<>>
      ]_vars

(***************************************************************************)
(* Properties of failing frames, checked under SpecFaults.                 *)
(***************************************************************************)

ValidationErrorsAreReported ==
    [][\A k \in Conns :
            (ops' # ops /\ IsSubscribed(k)) =>
                ((\/ \E raw \in BlankTexts : ReceiveChatMessage(k, raw, 0, "none")
                  \/ \E m \in 0..1, raw \in {<<" ">>, <<"c">>} :
                        /\ m = 0 \/ raw \in BlankTexts
                        /\ ReceiveMessageEdit(k, m, raw, "none")
                  \/ ReceiveMessageDelete(k, 0, "none")
                  \/ \E m \in 0..1, kind \in {"", "like"} :
                        /\ m = 0 \/ kind = ""
                        /\ ReceiveReaction(k, m, kind, "none")
                  \/ ReceiveReadReceipt(k, 0, "none")) =>
                    /\ Len(out') = 1
                    /\ out'[1].to = k
                    /\ out'[1].frame.type = "error"
                    /\ UNCHANGED <<store, presence, inbox, conn, group>>)
      ]_vars

(***************************************************************************)
(* C12 -- A reaction whose kind is none of REACTION_CHOICES is refused: on *)
(* the socket it writes one error frame to the sender, on REST it answers  *)
(* 400, and on both paths no MessageReaction row is stored and no          *)
(* reaction event is put in any mailbox.  Checked under SpecSignals.       *)
(***************************************************************************)
UnknownReactionIsRefused ==
    [][\A m \in MsgIds :
            (ops' # ops /\ Exists(m)) =>
                /\ \A k \in Conns :
                      (IsSubscribed(k) /\ ReceiveReaction(k, m, "bogus", "none")) =>
                          /\ Len(out') = 1
                          /\ out'[1].to = k
                          /\ out'[1].frame.type = "error"
                          /\ UNCHANGED <<reactions, inbox>>
                /\ \A u \in Members :
                      RestAddReaction(u, m, "bogus") =>
                          /\ out' = Respond(400, "Invalid reaction")
                          /\ UNCHANGED <<reactions, inbox>>
      ]_vars

(***************************************************************************)
(* Properties of the two rooms, checked under SpecRooms.                   *)
(***************************************************************************)

(***************************************************************************)
(* C13 -- REST mirror for reactions.  A reaction frame of user U's         *)
(* connection on an existing message M with a valid kind leaves the        *)
(* MessageReaction rows that the REST add_reaction call of U on M would    *)
(* leave from the same state, and puts the same reaction event in the same *)
(* mailboxes.                                                              *)
(***************************************************************************)
ReactionMirrorsRest ==
    [][\A k \in Conns, m \in MsgIds :
            (ops' # ops /\ IsSubscribed(k) /\ Exists(m)) =>
                (ReceiveReaction(k, m, "like", "none") =>
                    /\ reactions' = AddReactionRows(reactions, conn[k].user, m, "like")
                    /\ Payloads(inbox') =
                          Payloads(AddReactionPublish(inbox, conn[k].user, m, "like")))
      ]_vars

(***************************************************************************)
(* C14 -- Disconnect cleanup is unconditional.  When an admitted           *)
(* connection of user U in room C disconnects, U's UserStatus has status   *)
(* offline and neither a typing target nor a typing start, whatever other  *)
(* connections U has; the connection's mailbox is gone, and one offline    *)
(* status event of U is appended to the mailbox of every connection that   *)
(* stays in room C and to no other.                                        *)
(***************************************************************************)
DisconnectCleanup ==
    [][\A k \in Conns :
            (conn[k] # conn'[k] /\ IsSubscribed(k)) =>
                (Disconnect(k) =>
                    LET u == conn[k].user
                        c == conn[k].conv
                    IN  /\ presence'[u] = [exists |-> TRUE, status |-> "offline",
                                           typing_in |-> 0, typing_started_at |-> -1]
                        /\ \A v \in Users \ {u} : presence'[v] = presence[v]
                        /\ k \notin group'[c]
                        /\ \A j \in Conns :
                              inbox'[j] =
                                IF j = k THEN <<>>
                                ELSE IF j \in group[c]
                                THEN Append(inbox[j], StatusEvent(k, u, "offline"))
                                ELSE inbox[j])
      ]_vars

\* A connection that sent a typing notice has disconnected while its user
\* has another connection in the room: that one holds the typing event and
\* then the offline event, and the user is offline and not typing.
DisconnectCleanupWitness ==
    \E k \in Conns, j \in Conns :
        /\ conn[k].state = "Closed"
        /\ conn[k].accepted
        /\ IsSubscribed(j)
        /\ conn[j].user = conn[k].user
        /\ presence[conn[k].user].status = "offline"
        /\ presence[conn[k].user].typing_in = 0
        /\ Len(inbox[j]) >= 2
        /\ LastOf(inbox[j]) = StatusEvent(k, conn[k].user, "offline")
        /\ inbox[j][Len(inbox[j]) - 1] = UserTypingEvent(k, conn[k].user, TRUE)

(***************************************************************************)
(* C15 -- A closed connection is in no room.  Whatever happens while       *)
(* connection k is closed, k is in no group, no event is put in k's        *)
(* mailbox and no frame is written to k; and a chat message published to   *)
(* the room k was in is stored and put in the mailbox of every connection  *)
(* that is in the room, without an error frame.                            *)
(***************************************************************************)
ClosedConnectionsGetNoEvents ==
    [][\A k \in Conns :
            conn[k].state = "Closed" =>
                /\ \A c \in ConvIds : k \notin group[c] /\ k \notin group'[c]
                /\ inbox'[k] = <<>>
                /\ \A i \in 1..Len(out') : out'[i].to # k
                /\ \A j \in Conns \ {k} :
                      (/\ ops' # ops
                       /\ IsSubscribed(j)
                       /\ conn[j].conv = conn[k].conv
                       /\ ReceiveChatMessage(j, <<"a">>, 0, "none")) =>
                          /\ out' = <<>>
                          /\ Len(messages') = Len(messages) + 1
                          /\ \A i \in group[conn[j].conv] :
                                /\ Len(inbox'[i]) = Len(inbox[i]) + 1
                                /\ LastOf(inbox'[i]).type = "chat_message_broadcast"
                                /\ LastOf(inbox'[i]).origin = j
      ]_vars

\* A connection has left the room, and a message was published to the room
\* after that: the mailbox of a connection that stayed holds the offline
\* event and then the message, the mailbox of the closed one nothing.
ClosedConnectionsWitness ==
    \E k \in Conns, j \in Conns :
        /\ conn[k].state = "Closed"
        /\ conn[k].accepted
        /\ IsSubscribed(j)
        /\ conn[j].conv = conn[k].conv
        /\ inbox[k] = <<>>
        /\ \E i \in 1..(Len(inbox[j]) - 1) :
              /\ inbox[j][i] = StatusEvent(k, conn[k].user, "offline")
              /\ inbox[j][i + 1].type = "chat_message_broadcast"
              /\ inbox[j][i + 1].origin = j

(***************************************************************************)
(* C16 -- Soft delete is per user.  When member B soft-deletes message M,  *)
(* over the socket or over REST, the only change of the store is the new   *)
(* MessageDeletion(M, B); for every other member A the message list and    *)
(* the last message of the conversation are what they were, so A still     *)
(* sees M with its content unless A deleted it too.  Checked under         *)
(* SpecMessages.                                                           *)
(***************************************************************************)
DeleteIsPerUser ==
    [][\A m \in MsgIds, b \in Members :
            (msgDeleted' # msgDeleted /\ Exists(m)) =>
                ((\/ \E k \in Conns :
                        /\ IsSubscribed(k)
                        /\ conn[k].user = b
                        /\ ReceiveMessageDelete(k, m, "none")
                  \/ RestDeleteMessage(b, m)) =>
                    /\ msgDeleted' = [msgDeleted EXCEPT ![<<m, b>>] = 1]
                    /\ UNCHANGED <<messages, convDeleted, reactions, readStatus>>
                    /\ \A a \in Members \ {b} :
                          /\ MessageListOf(messages', msgDeleted', a, messages[m].conv)
                               = MessageListOf(messages, msgDeleted, a, messages[m].conv)
                          /\ LastMessageOf(messages', msgDeleted', a, messages[m].conv)
                               = LastMessageOf(messages, msgDeleted, a, messages[m].conv)
                          /\ ~Has(msgDeleted, <<m, a>>) =>
                                \E row \in MessageListOf(messages', msgDeleted', a,
                                                         messages[m].conv) :
                                    /\ row.message_id = m
                                    /\ row.content = Decrypt(messages[m].content)
                                    /\ row.content # Null)
      ]_vars

\* B has soft-deleted the latest message, which A wrote and still sees as
\* the conversation's last message; B sees none.
DeleteIsPerUserWitness ==
    /\ Len(messages) = 1
    /\ messages[1].sender = "A"
    /\ Has(msgDeleted, <<1, "B">>)
    /\ ~Has(msgDeleted, <<1, "A">>)
    /\ LastMessageOf(messages, msgDeleted, "A", 1)
         = <<SerializeMessage(messages, msgDeleted, 1, "A")>>
    /\ LastMessageOf(messages, msgDeleted, "B", 1) = <<>>
    /\ \E k \in Conns :
          /\ IsSubscribed(k)
          /\ inbox[k] # <<>>
          /\ LastOf(inbox[k]).type = "message_deleted_broadcast"
          /\ LastOf(inbox[k]).user_data = UserData("B")

(***************************************************************************)
(* Properties of typing, checked under SpecTyping.                         *)
(***************************************************************************)

(***************************************************************************)
(* C17 -- Typing expires at read time.  A conversation summary read by a   *)
(* member V lists another user U as typing exactly when U's UserStatus     *)
(* points at the conversation and its typing start is at most TypingWindow *)
(* (10) seconds old: a start that is 11 seconds old or more is not listed, *)
(* although the read clears nothing and the record still holds the typing  *)
(* target.                                                                 *)
(***************************************************************************)
TypingExpiresAtReadTime ==
    [][\A v \in Members :
            (ops' # ops /\ RestGetConversation(v, 1) /\ ~Has(convDeleted, <<1, v>>)) =>
                /\ Len(out') = 1
                /\ out'[1].frame.type = "conversation"
                /\ presence' = presence
                /\ \A u \in Users \ {v} :
                      (presence[u].typing_in = 1 /\ presence[u].typing_started_at # -1) =>
                          /\ now >= presence[u].typing_started_at + TypingWindow + 1
                                => u \notin out'[1].frame.typing_users
                          /\ now <= presence[u].typing_started_at + TypingWindow
                                => u \in out'[1].frame.typing_users
      ]_vars

\* A summary was just read 11 seconds after user A started typing: A is not
\* listed, and A's record still points at the conversation.
TypingExpiresWitness ==
    /\ presence["A"].typing_in = 1
    /\ presence["A"].typing_started_at # -1
    /\ now = presence["A"].typing_started_at + TypingWindow + 1
    /\ out = <<[to |-> 0, frame |-> ConversationSummary("B", 1)]>>
    /\ "A" \notin out[1].frame.typing_users

(***************************************************************************)
(* C18 -- Connection state machine, checked under SpecHandshake.  A        *)
(* connection only moves forward: from Connecting to Subscribed or Closed, *)
(* from Subscribed to Closed, and a Closed connection never changes.  It   *)
(* becomes Subscribed only with an authenticated user who passes the       *)
(* access check of the conversation, and is then accepted; a handshake     *)
(* that closes instead is not accepted and carries 4001 without a user or  *)
(* 4003 with one.  A connection is in the group of a conversation exactly  *)
(* while it is Subscribed to it.  (The handshake is one step: the          *)
(* Authenticated stage is the point in it where the user is known.)        *)
(***************************************************************************)
ConnectionLifecycle ==
    [][\A k \in Conns :
            /\ conn[k].state # conn'[k].state =>
                  <<conn[k].state, conn'[k].state>> \in
                      {<<"Connecting", "Subscribed">>, <<"Connecting", "Closed">>,
                       <<"Subscribed", "Closed">>}
            /\ conn[k].state = "Closed" => conn'[k] = conn[k]
            /\ (conn[k].state = "Connecting" /\ conn'[k].state = "Subscribed") =>
                  /\ conn'[k].user \in Users
                  /\ VerifyConversationAccess(conn'[k].user, conn'[k].conv)
                  /\ conn'[k].accepted
            /\ (conn[k].state = "Connecting" /\ conn'[k].state = "Closed") =>
                  /\ ~conn'[k].accepted
                  /\ conn'[k].code \in {AuthFailedCode, AccessDeniedCode}
                  /\ conn'[k].code = AuthFailedCode <=> conn'[k].user = NoUser
            /\ \A c \in ConvIds :
                  k \in group'[c] <=> (conn'[k].state = "Subscribed" /\ conn'[k].conv = c)
      ]_vars

\* One connection was subscribed and has closed, another was refused at the
\* handshake; neither is in a group.
ConnectionLifecycleWitness ==
    \E k \in Conns, j \in Conns :
        /\ conn[k].state = "Closed"
        /\ conn[k].accepted
        /\ conn[k].code = 0
        /\ conn[j].state = "Closed"
        /\ conn[j].code = AccessDeniedCode
        /\ \A c \in ConvIds : group[c] = {}

(***************************************************************************)
(* C19 -- Atomic toggle under concurrency, checked under SpecToggle.       *)
(* Starting without the reaction, when every toggle that was started has   *)
(* completed, the reaction is there exactly when their number is odd, as   *)
(* after any sequential order of the toggles.  (Under SpecToggle every     *)
(* call is a toggle of "like" by A on message 1, so `ops` is the number of *)
(* toggles started.)                                                       *)
(***************************************************************************)
TogglesAreSequential ==
    pending = {} => (Has(reactions, <<1, "A", "like">>) <=> ops % 2 = 1)

(***************************************************************************)
(* C21 -- Admission and publishing.  From the step that admits a           *)
(* connection (the room join of connect) until its removal, the connection *)
(* misses no event of its room: whenever an event is appended to the       *)
(* mailbox of a subscribed connection j, the same event is appended to the *)
(* mailbox of every other connection subscribed to the same conversation;  *)
(* and the mailbox of a subscribed connection changes only by such an      *)
(* append or by the delivery of its head, which writes what the            *)
(* broadcaster handler (with its per-recipient filter) makes of it.  An    *)
(* event published before the admission is not in the mailbox of the new   *)
(* connection.  A chat message that a subscribed connection sends is       *)
(* appended to its own mailbox, hence to every mailbox of the room.        *)
(* Checked under SpecRooms.                                                *)
(***************************************************************************)
Appended(box, box2, j) ==
    /\ Len(box2[j]) = Len(box[j]) + 1
    /\ SubSeq(box2[j], 1, Len(box[j])) = box[j]

AdmittedConnectionsMissNothing ==
    [][\A k \in Conns :
            (IsSubscribed(k) /\ conn'[k] = conn[k]) =>
                /\ \/ inbox'[k] = inbox[k]
                   \/ Appended(inbox, inbox', k)
                   \/ /\ inbox[k] # <<>>
                      /\ inbox'[k] = Tail(inbox[k])
                      /\ out' = To(k, Broadcaster(Head(inbox[k]), conn[k].user))
                /\ \A j \in Conns \ {k} :
                      (/\ IsSubscribed(j)
                       /\ conn'[j] = conn[j]
                       /\ conn[j].conv = conn[k].conv
                       /\ Appended(inbox, inbox', j)) =>
                          /\ Appended(inbox, inbox', k)
                          /\ LastOf(inbox'[k]) = LastOf(inbox'[j])
                /\ (ops' # ops /\ ReceiveChatMessage(k, <<"a">>, 0, "none")) =>
                      /\ Appended(inbox, inbox', k)
                      /\ LastOf(inbox'[k]).type = "chat_message_broadcast"
                      /\ LastOf(inbox'[k]).origin = k
      ]_vars

\* Connection 2 was admitted to the room of connection 1 after a message had
\* been published there, and a second message was published after that: the
\* mailbox of connection 1 holds both messages, the mailbox of connection 2
\* its own admission and the second message only.
AdmittedConnectionsWitness ==
    /\ IsSubscribed(1) /\ IsSubscribed(2)
    /\ conn[1].conv = conn[2].conv
    /\ Len(inbox[1]) = 4 /\ Len(inbox[2]) = 2
    /\ inbox[1][2].type = "chat_message_broadcast"
    /\ inbox[1][3] = inbox[2][1]
    /\ inbox[2][1].type = "status_broadcast"
    /\ inbox[1][4] = inbox[2][2]
    /\ inbox[2][2].type = "chat_message_broadcast"

(***************************************************************************)
(* C22 -- Per-connection ordering.  A connection has at most one handler   *)
(* in flight: while a toggle of connection k is between its statements, no *)
(* further frame of k is taken.  The handler of a chat message stores the  *)
(* row and publishes its event in one go, before the next frame is taken.  *)
(* In every mailbox, the chat messages published by one connection are in  *)
(* the order in which that connection sent them (increasing message id),   *)
(* and the consumer hands the events of its mailbox over in mailbox order. *)
(* Checked under SpecOrder.                                                *)
(***************************************************************************)
InFlight(k) == {p \in pending : p.origin = k}

SentInOrder(box) ==
    \A j \in Conns : \A a, b \in 1..Len(box[j]) :
        (/\ a < b
         /\ box[j][a].type = "chat_message_broadcast"
         /\ box[j][b].type = "chat_message_broadcast"
         /\ box[j][a].origin = box[j][b].origin) =>
            box[j][a].message.message_id < box[j][b].message.message_id

EditIsOwnerOnly ==
    [][/\ \A k \in Conns, m \in MsgIds :
              (/\ ops' # ops
               /\ IsSubscribed(k)
               /\ Exists(m)
               /\ ReceiveMessageEdit(k, m, <<"c">>, "none")) =>
                  IF messages[m].sender # conn[k].user
                  THEN /\ store' = store
                       /\ inbox' = inbox
                       /\ presence' = presence
                       /\ Len(out') = 1
                       /\ out'[1].to = k
                       /\ out'[1].frame.type = "error"
                  ELSE /\ messages' =
                             [messages EXCEPT ![m] =
                                 [@ EXCEPT !.content = messages'[m].content,
                                           !.is_edited = TRUE,
                                           !.edited_at = now]]
                       /\ Decrypt(messages'[m].content) = <<"c">>
                       /\ <<msgDeleted', convDeleted', reactions', readStatus'>>
                             = <<msgDeleted, convDeleted, reactions, readStatus>>
                       /\ out' = <<>>
                       /\ \A j \in group[conn[k].conv] :
                             /\ Appended(inbox, inbox', j)
                             /\ LastOf(inbox'[j]).type = "message_edited_broadcast"
                             /\ LastOf(inbox'[j]).message.message_id = m
                             /\ LastOf(inbox'[j]).message.sender = messages[m].sender
                             /\ LastOf(inbox'[j]).message.is_edited
       /\ Len(messages') >= Len(messages)
       /\ \A m \in 1..Len(messages) :
             /\ messages'[m].conv = messages[m].conv
             /\ messages'[m].sender = messages[m].sender
             /\ messages'[m].reply_to = messages[m].reply_to
      ]_vars

\* Message 1 was edited by its sender, and the last frame was an edit that
\* was refused with an error: the message is still the sender's, in its
\* conversation, with the text of the sender's edit.
EditIsOwnerOnlyWitness ==
    /\ Len(messages) >= 1
    /\ messages[1].is_edited
    /\ Decrypt(messages[1].content) = <<"c">>
    /\ \E k \in Conns :
          /\ IsSubscribed(k)
          /\ conn[k].user # messages[1].sender
          /\ out = SendError(k, "Failed to edit message")

(***************************************************************************)
(* C25 -- Typing window boundary.  Whenever a member reads the summary of  *)
(* conversation 1 at time t, another user whose typing target is the       *)
(* conversation and whose typing started at s is in typing_users if and    *)
(* only if t - s < 10; with t - s = 10 the user is not in it.  Checked     *)
(* under SpecTyping.                                                       *)
(***************************************************************************)
TypingWindowIsExclusive ==
    [][\A u \in Members :
            (ops' # ops /\ RestGetConversation(u, 1)) =>
                /\ Len(out') = 1
                /\ out'[1].frame.type = "conversation"
                /\ \A v \in Users \ {u} :
                      v \in out'[1].frame.typing_users <=>
                          /\ presence[v].exists
                          /\ presence[v].typing_in = 1
                          /\ presence[v].typing_started_at # -1
                          /\ now - presence[v].typing_started_at < TypingWindow
      ]_vars

(***************************************************************************)
(* C26 -- Presence status domain.  In every reachable state, after any     *)
(* sequence of connects, disconnects and REST status updates, the status   *)
(* of every UserStatus row is one of online, away, busy, offline.  Checked *)
(* under SpecPresence.                                                     *)
(***************************************************************************)
StatusIsInDomain ==
    \A u \in Users : presence[u].status \in StatusChoices

(***************************************************************************)
(* C27 -- A rejected handshake has no side effects.  A step in which a     *)
(* connection is closed during the handshake with the code 4001 or 4003    *)
(* changes no UserStatus row and puts no event in any mailbox.  Checked    *)
(* under SpecHandshake.                                                    *)
(***************************************************************************)
RejectedHandshakeChangesNothing ==
    [][\A k \in Conns :
            (/\ conn[k].state = "Connecting"
             /\ conn'[k].state = "Closed"
             /\ conn'[k].code \in {AuthFailedCode, AccessDeniedCode}) =>
                /\ presence' = presence
                /\ inbox' = inbox
      ]_vars

(***************************************************************************)
(* C28 -- Conversation isolation of broadcasts.  Every frame written to a  *)
(* connection subscribed to conversation C that carries or names a message *)
(* (chat_message with its reply-to preview, message_edited,                *)
(* message_restored, message_deleted, reaction, read_receipt) is about     *)
(* messages of C only.  Checked under SpecIsolation.                       *)
(***************************************************************************)
MessagesNamedBy(frame) ==
    IF frame.type \in {"chat_message", "message_edited", "message_restored"}
    THEN {frame.message.message_id, frame.message.reply_to.message_id} \ {0}
    ELSE IF frame.type \in {"message_deleted", "reaction", "read_receipt"}
    THEN {frame.message_id}
    ELSE {}

BroadcastsStayInTheirConversation ==
    \A i \in 1..Len(out) :
        out[i].to \in Conns =>
            \A m \in MessagesNamedBy(out[i].frame) :
                messages[m].conv = conn[out[i].to].conv

(***************************************************************************)
(* C29 -- Reactions and read receipts are confined to members.  In every   *)
(* reachable state, the user of every MessageReaction row and of every     *)
(* MessageReadStatus row is a participant of the conversation of the row's *)
(* message.  Checked under SpecRooms.                                      *)
(***************************************************************************)
ReactionsAndReceiptsAreMembersOnly ==
    \A m \in 1..Len(messages), u \in Users :
        (\/ \E kind \in ReactionInputs \ {""} : Has(reactions, <<m, u, kind>>)
         \/ readStatus[<<m, u>>] # -1) =>
            u \in Participants[messages[m].conv]

(***************************************************************************)
(* C30 -- Idempotent delete.  When user U deletes a message M that U has   *)
(* already soft-deleted, over the socket or over REST, the store is        *)
(* unchanged (still one MessageDeletion(M, U)) and no event is put in any  *)
(* mailbox.  Checked under SpecMessages.                                   *)
(***************************************************************************)
RepeatedDeleteIsSilent ==
    [][\A m \in MsgIds :
            (ops' # ops /\ Exists(m)) =>
                /\ \A k \in Conns :
                      (/\ IsSubscribed(k)
                       /\ Has(msgDeleted, <<m, conn[k].user>>)
                       /\ ReceiveMessageDelete(k, m, "none")) =>
                          /\ store' = store
                          /\ msgDeleted[<<m, conn[k].user>>] = 1
                          /\ inbox' = inbox
                /\ \A u \in Members :
                      (/\ Has(msgDeleted, <<m, u>>)
                       /\ RestDeleteMessage(u, m)) =>
                          /\ store' = store
                          /\ msgDeleted[<<m, u>>] = 1
                          /\ inbox' = inbox
      ]_vars


=============================================================================
